---------------------------- MODULE Spec2Model ----------------------------
(***************************************************************************)
(* Model of src/src/fx-data-generate.py: the command-line driver           *)
(* (validation, dispatch, output) as a state machine, and the five tick    *)
(* generators as operators computed the way the code computes them.        *)
(*                                                                         *)
(* Numbers.  Python floats are modelled as exact rationals, kept as mixed  *)
(* numbers [w, n, d] = w + n/d with 0 <= n < d and gcd(n, d) = 1, so that  *)
(* equal values are equal records.  Rounding error of IEEE doubles is not  *)
(* modelled: "equal" below means equal in exact arithmetic.  sin and exp   *)
(* (wave and curve prices) are kept as uninterpreted terms.                *)
(* Time is in whole seconds: a datetime is its epoch second (the local     *)
(* zone is taken to be UTC), a timedelta its length in seconds.            *)
(***************************************************************************)
EXTENDS Integers, Sequences, FiniteSets, TLC

VARIABLES
    args,        \* the parsed command line (argparse Namespace), fixed
    pc,          \* position in the __main__ block
    startDate,   \* datetime parsed from args.startDate, or None
    endDate,     \* datetime parsed from args.endDate, or None
    rows,        \* the ticks the generator returned, or None
    rng,         \* state of the random module's generator
    stderr,      \* lines printed to sys.stderr
    stdout,      \* number of CSV rows written to sys.stdout
    outFile,     \* [opened, rows]: whether open(.., "w") ran, rows written
    exitStatus   \* process exit status, or None while running

vars == <<args, pc, startDate, endDate, rows, rng, stderr, stdout, outFile, exitStatus>>

None == "None"

-----------------------------------------------------------------------------
(* Exact rational arithmetic standing in for float arithmetic.             *)

RECURSIVE Gcd(_, _)
Gcd(a, b) == IF b = 0 THEN a ELSE Gcd(b, a % b)

QInt(k) == [w |-> k, n |-> 0, d |-> 1]

QOver(w, r, den, g) == [w |-> w, n |-> r \div g, d |-> den \div g]

\* w + r/den (0 <= r < den) in lowest terms.
QReduce(w, r, den) == IF r = 0 THEN QInt(w) ELSE QOver(w, r, den, Gcd(den, r))

\* num/den (den > 0) as a normalised mixed number.
Q(num, den) == QReduce(num \div den, num % den, den)

\* w + t1/l + t2/l for t1, t2 < l.
QAddParts(w, t1, t2, l) ==
    IF t1 >= l - t2 THEN QReduce(w + 1, t1 - (l - t2), l) ELSE QReduce(w, t1 + t2, l)

QAddOver(a, b, g) ==
    QAddParts(a.w + b.w, a.n * (b.d \div g), b.n * (a.d \div g), a.d * (b.d \div g))

QAdd(a, b) ==
    IF a.n = 0 THEN [w |-> a.w + b.w, n |-> b.n, d |-> b.d]
    ELSE IF b.n = 0 THEN [w |-> a.w + b.w, n |-> a.n, d |-> a.d]
    ELSE QAddOver(a, b, IF a.d = b.d THEN a.d ELSE Gcd(a.d, b.d))

QNeg(a) ==
    IF a.n = 0 THEN QInt(-a.w) ELSE [w |-> -a.w - 1, n |-> a.d - a.n, d |-> a.d]

QSub(a, b) == QAdd(a, QNeg(b))

\* a * k for an integer k.
QMulInt(a, k) ==
    IF a.n = 0 THEN QInt(a.w * k) ELSE QAdd(QInt(a.w * k), Q(a.n * k, a.d))

\* a * b, neither a whole number.
QMulMixed(a, b) ==
    QAdd(QAdd(QMulInt(b, a.w), Q(b.w * a.n, a.d)), Q(a.n * b.n, a.d * b.d))

QMul(a, b) ==
    IF a.n = 0 THEN QMulInt(b, a.w)
    ELSE IF b.n = 0 THEN QMulInt(a, b.w)
    ELSE QMulMixed(a, b)

\* a / k for an integer k > 0.
QDivPos(a, k) ==
    QAdd(QInt(a.w \div k), Q((a.w % k) * a.d + a.n, a.d * k))

\* a / k for an integer k # 0.
QDivInt(a, k) == IF k > 0 THEN QDivPos(a, k) ELSE QNeg(QDivPos(a, -k))

QIsZero(a) == a.w = 0 /\ a.n = 0
QLeZero(a) == a.w < 0 \/ QIsZero(a)
QLtZero(a) == a.w < 0
QAbs(a)    == IF QLtZero(a) THEN QNeg(a) ELSE a

\* int(x) of Python: truncation toward zero.
QTrunc(a) == IF a.w < 0 /\ a.n # 0 THEN a.w + 1 ELSE a.w

CeilDiv(a, b) == -((-a) \div b)

-----------------------------------------------------------------------------
(* Dates.  A date argument is the triple of the three dot-separated fields *)
(* of the string; strptime("%Y.%m.%d") raises ValueError when the month or *)
(* the day is out of range.                                                *)

IsLeap(y) == (y % 4 = 0 /\ y % 100 # 0) \/ y % 400 = 0

DaysInMonth(y, m) ==
    IF m = 2 THEN (IF IsLeap(y) THEN 29 ELSE 28)
    ELSE IF m \in {4, 6, 9, 11} THEN 30 ELSE 31

DateParses(s) ==
    /\ s[1] \in 1..9999
    /\ s[2] \in 1..12
    /\ s[3] \in 1..DaysInMonth(s[1], s[2])

\* Days from 1970-01-01 to the civil date y.m.d (proleptic Gregorian).
DaysFromCivil(y, m, d) ==
    LET yy  == IF m <= 2 THEN y - 1 ELSE y
        era == yy \div 400
        yoe == yy - era * 400
        mp  == IF m > 2 THEN m - 3 ELSE m + 9
        doy == (153 * mp + 2) \div 5 + d - 1
        doe == yoe * 365 + yoe \div 4 - yoe \div 100 + doy
    IN  era * 146097 + doe - 719468

SecondsPerDay == 86400

\* datetime.strptime(s, "%Y.%m.%d") as the epoch second of its midnight.
Strptime(s) == DaysFromCivil(s[1], s[2], s[3]) * SecondsPerDay


-----------------------------------------------------------------------------
(* The volume synthesizer.                                                 *)

\* str(int(longTimestamp / 60))[-3:] read back as an int, plus one.
VolumeDivisor(longTimestamp) == ((longTimestamp \div 60) % 1000) + 1

\* int((longTimestamp / d) % m) for an integer modulus m # 0.  Python's % on
\* floats takes the sign of the modulus; int() truncates toward zero.
VolumeMod(longTimestamp, d, m) ==
    IF m > 0
    THEN (longTimestamp \div d) % m
    ELSE CeilDiv(longTimestamp, d) - (-m) * CeilDiv(longTimestamp, d * (-m))

\* return (bidVolume, bidVolume + spread)
VolumePair(bidVolume, spreadPts) ==
    [fault     |-> None,
     bidVolume |-> QInt(bidVolume),
     askVolume |-> QAdd(QInt(bidVolume), spreadPts)]

\* The body of volumesFromTimestamp after "spread *= 1e5"; m is the
\* modulus 1e3 - spread.
VolumesWithModulus(longTimestamp, spreadPts, m) ==
    IF m = 0
    THEN [fault |-> "ZeroDivisionError", bidVolume |-> None, askVolume |-> None]
    ELSE VolumePair(VolumeMod(longTimestamp, VolumeDivisor(longTimestamp), m), spreadPts)

VolumesInPoints(longTimestamp, spreadPts) ==
    VolumesWithModulus(longTimestamp, spreadPts, QTrunc(QSub(QInt(1000), spreadPts)))

\* volumesFromTimestamp(timestamp, spread).  spread * 1e5 is a whole number
\* of points for every spread the driver passes (args.spread / 1e5).
volumesFromTimestamp(timestamp, spread) ==
    VolumesInPoints(timestamp, QMulInt(spread, 100000))

-----------------------------------------------------------------------------
(* Pieces shared by the generators.                                        *)

\* The locals every generator sets before its loop.
FirstLocals(start, startPrice, spread) ==
    [timestamp |-> start,
     bidPrice  |-> startPrice,
     askPrice  |-> QAdd(startPrice, spread),
     bidVolume |-> QInt(1),
     askVolume |-> QAdd(QInt(1), spread),
     ticks     |-> << >>,
     fault     |-> None]

\* ticks += [{...}]
Emit(st) ==
    Append(st.ticks, [timestamp |-> st.timestamp,
                      bidPrice  |-> st.bidPrice,
                      askPrice  |-> st.askPrice,
                      bidVolume |-> st.bidVolume,
                      askVolume |-> st.askVolume])

\* The locals after an iteration whose volumes are v; the exception
\* volumesFromTimestamp raised leaves the loop.
WithVolumes(st, timestamp, bidPrice, askPrice, v) ==
    IF v.fault # None
    THEN [st EXCEPT !.fault = v.fault]
    ELSE [st EXCEPT !.timestamp = timestamp,
                    !.bidPrice  = bidPrice,
                    !.askPrice  = askPrice,
                    !.bidVolume = v.bidVolume,
                    !.askVolume = v.askVolume,
                    !.ticks     = Emit(st)]

\* One iteration: the tick is appended, the locals move on.
Advance(st, timestamp, bidPrice, askPrice, spread) ==
    WithVolumes(st, timestamp, bidPrice, askPrice,
                volumesFromTimestamp(timestamp, spread))

\* An iteration whose askPrice is bidPrice + spread.
AdvanceBid(st, timestamp, bidPrice, spread) ==
    Advance(st, timestamp, bidPrice, QAdd(bidPrice, spread), spread)

\* ceil((endDate + timedelta(days=1) - startDate) / deltaTime)
TickCount(start, end, deltaTime) == CeilDiv(end + SecondsPerDay - start, deltaTime)

Result(out) == [fault |-> out.fault, ticks |-> out.ticks]

Raise(fault, out) == [fault |-> fault, ticks |-> out.ticks]

-----------------------------------------------------------------------------
(* linearModel                                                             *)

LinearDeltaPriceOverRange(start, end, startPrice, endPrice, deltaTime) ==
    QMul(Q(deltaTime, end + SecondsPerDay - start), QSub(endPrice, startPrice))

\* deltaTime / (endDate + 1 day - startDate - deltaTime) * (endPrice - startPrice)
LinearDeltaPrice(start, end, startPrice, endPrice, deltaTime) ==
    QMul(Q(deltaTime, end + SecondsPerDay - start - deltaTime),
         QSub(endPrice, startPrice))

LinearContinuesInclusive(timestamp, end) == timestamp <= end + SecondsPerDay

\* while timestamp < (endDate + datetime.timedelta(days=1))
LinearContinues(timestamp, end) == timestamp < end + SecondsPerDay

LinearBody(env, st) ==
    Advance(st, st.timestamp + env.deltaTime,
            QAdd(st.bidPrice, env.deltaPrice),
            QAdd(st.askPrice, env.deltaPrice), env.spread)

LinearActive(env, st) ==
    st.fault = None /\ LinearContinues(st.timestamp, env.end)

\* Up to 2^k iterations of the while loop.
RECURSIVE LinearIterate(_, _, _)
LinearIterate(env, st, k) ==
    IF ~LinearActive(env, st) THEN st
    ELSE IF k = 0 THEN LinearBody(env, st)
    ELSE LinearIterate(env, LinearIterate(env, st, k - 1), k - 1)

\* The while loop, run until its condition fails or an exception leaves it.
RECURSIVE LinearWhile(_, _, _)
LinearWhile(env, st, k) ==
    IF ~LinearActive(env, st) THEN st
    ELSE LinearWhile(env, LinearIterate(env, st, k), k + 1)

linearModel(start, end, startPrice, endPrice, deltaTime, spread) ==
    Result(LinearWhile([end        |-> end,
                        deltaTime  |-> deltaTime,
                        spread     |-> spread,
                        deltaPrice |-> LinearDeltaPrice(start, end, startPrice,
                                                        endPrice, deltaTime)],
                       FirstLocals(start, startPrice, spread), 0))

-----------------------------------------------------------------------------
(* zigzagModel                                                             *)

ZigzagUpStepSingle(forward, backward, lift) ==
    QMul(Q(forward + backward, forward), lift)

\* (forward + 2 * backward) / forward * lift
ZigzagUpStep(forward, backward, lift) ==
    QMul(Q(forward + 2 * backward, forward), lift)

\* One iteration of "for i in range(0, count - backward)"; env.up is
\* ZigzagUpStep, computed once.
ZigzagBody(env, st, i) ==
    AdvanceBid(st, st.timestamp + env.deltaTime,
               IF (i + 1) % (env.forward + env.backward) < env.forward
               THEN QAdd(st.bidPrice, env.up)
               ELSE QSub(st.bidPrice, env.lift),
               env.spread)

ZigzagTailSameTime(env, st, i) ==
    AdvanceBid(st, st.timestamp, QAdd(st.bidPrice, env.lift), env.spread)

\* One iteration of "for i in range(count - backward, count)".
ZigzagTail(env, st, i) ==
    AdvanceBid(st, st.timestamp + env.deltaTime, QAdd(st.bidPrice, env.lift),
               env.spread)

-----------------------------------------------------------------------------
(* waveModel and curveModel.  Their prices go through sin and exp and stay *)
(* terms: abs(base + amp * sin(turns * pi)), and the curve's expression in *)
(* x = i / d and xEnd = (count - 1) / d.                                   *)

PricePlusSpread(price, spread) == [fn |-> "add", price |-> price, spread |-> spread]

AdvanceTerm(st, timestamp, bidPrice, spread) ==
    Advance(st, timestamp, bidPrice, PricePlusSpread(bidPrice, spread), spread)

\* One iteration of waveModel's loop.
WaveBody(env, st, i) ==
    IF env.count - 1 = 0
    THEN [st EXCEPT !.fault = "ZeroDivisionError"]
    ELSE AdvanceTerm(st, st.timestamp + env.deltaTime,
                     [fn    |-> "abs-sine",
                      base  |-> IF ~QIsZero(QAbs(env.deltaPrice))
                                THEN QAdd(env.startPrice,
                                          QMul(Q(i + 1, env.count - 1), env.deltaPrice))
                                ELSE env.startPrice,
                      amp   |-> env.volatility,
                      turns |-> Q(3 * (i + 1), env.count - 1)],
                     env.spread)

\* math.exp raises OverflowError for arguments above 709.78.
ExpOverflows(x) == x.w >= 710

\* exp(x) = 1, which makes 1 - exp(x) a zero divisor.  (In floats this is
\* also so for 0 < x < 2^-53, below every volatility of the model.)
ExpIsOne(x) == QIsZero(x)

\* i / d for d = count / volatility
CurveArg(i, volatility, count) == QDivInt(QMulInt(volatility, i), count)

CurveTerm(env, st, x, xEnd) ==
    IF ExpOverflows(x) \/ ExpOverflows(xEnd)
    THEN [st EXCEPT !.fault = "OverflowError"]
    ELSE IF ExpIsOne(xEnd)
    THEN [st EXCEPT !.fault = "ZeroDivisionError"]
    ELSE AdvanceTerm(st, st.timestamp + env.deltaTime,
                     [fn         |-> "curve",
                      startPrice |-> env.startPrice,
                      deltaPrice |-> env.deltaPrice,
                      x          |-> x,
                      xEnd       |-> xEnd],
                     env.spread)

\* One iteration of curveModel's loop; env.xEnd is (count - 1) / d.
CurveBody(env, st, i) ==
    CurveTerm(env, st, CurveArg(i + 1, env.volatility, env.count), env.xEnd)

-----------------------------------------------------------------------------
(* randomModel.  The random module's generator is a deterministic function *)
(* of its hidden state; it is modelled as a four-state generator whose     *)
(* random() returns state/4, a value of [0, 1).                            *)

RandomAdvance(s) == (s + 3) % 4

RandomValue(s) == Q(s, 4)

\* deltaPrice * (random.random() - 0.5) * volatility
RandomNoise(deltaPrice, r, volatility) ==
    QMul(QMul(deltaPrice, QSub(r, Q(1, 2))), volatility)

\* deltaPrice + RandomNoise, for each of the four values of random().
RandomSteps(deltaPrice, volatility) ==
    [s \in 0..3 |-> QAdd(deltaPrice, RandomNoise(deltaPrice, RandomValue(s), volatility))]

\* One iteration of randomModel's loop; env.steps is RandomSteps, computed
\* once.
RandomBody(env, st, i) ==
    AdvanceBid([st EXCEPT !.rng = RandomAdvance(st.rng)],
               st.timestamp + env.deltaTime,
               QAdd(st.bidPrice, env.steps[RandomAdvance(st.rng)]),
               env.spread)

-----------------------------------------------------------------------------
(* The counted loops.                                                      *)

LoopBody(env, st, i) ==
    CASE env.loop = "zigzagBody" -> ZigzagBody(env, st, i)
      [] env.loop = "zigzagTail" -> ZigzagTail(env, st, i)
      [] env.loop = "wave"       -> WaveBody(env, st, i)
      [] env.loop = "curve"      -> CurveBody(env, st, i)
      [] env.loop = "random"     -> RandomBody(env, st, i)

\* for i in range(lo, hi): the iterations in order, left by an exception.
RECURSIVE ForRange(_, _, _, _)
ForRange(env, st, lo, hi) ==
    IF hi <= lo \/ st.fault # None THEN st
    ELSE IF hi = lo + 1 THEN LoopBody(env, st, lo)
    ELSE ForRange(env, ForRange(env, st, lo, (lo + hi) \div 2), (lo + hi) \div 2, hi)

\* The tail loop, after "lift = (endPrice - bidPrice) / (backward - 1)".
ZigzagTailLoop(env, body, endPrice, count) ==
    IF body.fault # None THEN Result(body)
    ELSE IF env.backward - 1 = 0 THEN Raise("ZeroDivisionError", body)
    ELSE Result(ForRange([env EXCEPT !.loop = "zigzagTail",
                                     !.lift = QDivInt(QSub(endPrice, body.bidPrice),
                                                      env.backward - 1)],
                         body, count - env.backward, count))

ZigzagLoops(env, first, endPrice, count) ==
    ZigzagTailLoop(env, ForRange(env, first, 0, count - env.backward), endPrice, count)

ZigzagEnv(deltaTime, spread, forward, backward, lift) ==
    [loop |-> "zigzagBody", deltaTime |-> deltaTime, spread |-> spread,
     forward |-> forward, backward |-> backward, lift |-> lift,
     up |-> ZigzagUpStep(forward, backward, lift)]

zigzagModel(start, end, startPrice, endPrice, deltaTime, spread, volatility) ==
    ZigzagLoops(ZigzagEnv(deltaTime, spread, 500, QTrunc(QMulInt(volatility, 50)),
                          QDivInt(QSub(endPrice, startPrice),
                                  TickCount(start, end, deltaTime))),
                FirstLocals(start, startPrice, spread),
                endPrice, TickCount(start, end, deltaTime))

waveModel(start, end, startPrice, endPrice, deltaTime, spread, volatility) ==
    Result(ForRange([loop |-> "wave", deltaTime |-> deltaTime, spread |-> spread,
                     startPrice |-> startPrice, volatility |-> volatility,
                     deltaPrice |-> QSub(endPrice, startPrice),
                     count |-> TickCount(start, end, deltaTime)],
                    FirstLocals(start, startPrice, spread),
                    0, TickCount(start, end, deltaTime)))

curveModel(start, end, startPrice, endPrice, deltaTime, spread, volatility) ==
    Result(ForRange([loop |-> "curve", deltaTime |-> deltaTime, spread |-> spread,
                     startPrice |-> startPrice, volatility |-> volatility,
                     deltaPrice |-> QSub(endPrice, startPrice),
                     count |-> TickCount(start, end, deltaTime),
                     xEnd |-> CurveArg(TickCount(start, end, deltaTime) - 1, volatility,
                                       TickCount(start, end, deltaTime))],
                    FirstLocals(start, startPrice, spread),
                    0, TickCount(start, end, deltaTime)))

RandomKeepLast(ticks, endPrice, spread) == ticks

\* ticks[-1]["bidPrice"] = endPrice; ticks[-1]["askPrice"] = endPrice + spread
RandomOverrideLast(ticks, endPrice, spread) ==
    [ticks EXCEPT ![Len(ticks)].bidPrice = endPrice,
                  ![Len(ticks)].askPrice = QAdd(endPrice, spread)]

RandomResult(out, endPrice, spread) ==
    IF out.fault # None THEN [fault |-> out.fault, ticks |-> out.ticks, rng |-> out.rng]
    ELSE IF out.ticks = << >>
    THEN [fault |-> "IndexError", ticks |-> out.ticks, rng |-> out.rng]
    ELSE [fault |-> None,
          ticks |-> RandomOverrideLast(out.ticks, endPrice, spread),
          rng   |-> out.rng]

randomModel(start, end, startPrice, endPrice, deltaTime, spread, volatility, seed) ==
    RandomResult(
        ForRange([loop |-> "random", deltaTime |-> deltaTime, spread |-> spread,
                  steps |-> RandomSteps(LinearDeltaPrice(start, end, startPrice,
                                                         endPrice, deltaTime),
                                        volatility)],
                 [rng |-> seed] @@ FirstLocals(start, startPrice, spread),
                 0, TickCount(start, end, deltaTime)),
        endPrice, spread)

-----------------------------------------------------------------------------
(* The command line.  Every argument is drawn from a small set holding the *)
(* values the checks and the generators tell apart.                        *)

MaxDensity == 2
MaxSeed == 1

StartDates   == {<<2014, 1, 1>>, <<2014, 13, 1>>}
EndDates     == {<<2013, 12, 31>>, <<2014, 1, 2>>, <<2014, 2, 30>>}
StartPrices  == {QInt(0), QInt(2)}
EndPrices    == {Q(-1, 2), QInt(2), Q(2288, 1000)}
DigitsArgs   == {0, 5}
Spreads      == {-1, 10, 1000}
Densities    == 0..MaxDensity
Patterns     == {"none", "wave", "curve", "zigzag", "random"}
Volatilities == {QInt(0), Q(1, 100), Q(2, 100), QInt(1), QInt(100)}
OutputFiles  == {None, "out.csv"}
Seeds        == 0..MaxSeed

Args ==
    [startDate : StartDates, endDate : EndDates,
     startPrice : StartPrices, endPrice : EndPrices,
     digits : DigitsArgs, spread : Spreads, density : Densities,
     pattern : Patterns, volatility : Volatilities]

-----------------------------------------------------------------------------
(* The __main__ block.                                                     *)

Init ==
    /\ args \in Args
    /\ pc = "parseDates"
    /\ startDate = None
    /\ endDate = None
    /\ rows = None
    /\ rng = None
    /\ stderr = << >>
    /\ stdout = 0
    /\ outFile = [opened |-> FALSE, rows |-> 0]
    /\ exitStatus = None

\* error(...): the line on stderr, then sys.exit(1) ("if exit:" tests the
\* builtin exit, which is always true).
Error(text) ==
    /\ stderr' = Append(stderr, "[ERROR] " \o text)
    /\ pc' = "exited"
    /\ exitStatus' = 1

\* An exception nobody catches: the traceback, exit status 1.
Crash(fault) ==
    /\ stderr' = Append(stderr, "Traceback: " \o fault)
    /\ pc' = "crashed"
    /\ exitStatus' = 1

Continue(next) ==
    /\ pc' = next
    /\ UNCHANGED <<stderr, exitStatus>>

ParseDates ==
    /\ pc = "parseDates"
    /\ IF DateParses(args.startDate) /\ DateParses(args.endDate)
       THEN /\ startDate' = Strptime(args.startDate)
            /\ endDate' = Strptime(args.endDate)
            /\ Continue("checkOrder")
       ELSE /\ startDate' = IF DateParses(args.startDate)
                            THEN Strptime(args.startDate) ELSE None
            /\ endDate' = None
            /\ Error("Bad date format!")
    /\ UNCHANGED <<args, rows, rng, stdout, outFile>>

OrderInvalid(start, end) == end < start

CheckOrder ==
    /\ pc = "checkOrder"
    /\ IF OrderInvalid(startDate, endDate)
       THEN Error("Ending date precedes starting date!")
       ELSE Continue("checkDigits")
    /\ UNCHANGED <<args, startDate, endDate, rows, rng, stdout, outFile>>

DigitsInvalidNegative(digits) == digits < 0

DigitsInvalid(digits) == digits <= 0

CheckDigits ==
    /\ pc = "checkDigits"
    /\ IF DigitsInvalid(args.digits)
       THEN Error("Digits must be larger than zero!")
       ELSE Continue("checkPrices")
    /\ UNCHANGED <<args, startDate, endDate, rows, rng, stdout, outFile>>

PricesInvalid(startPrice, endPrice) == QLeZero(startPrice) \/ QLeZero(endPrice)

CheckPrices ==
    /\ pc = "checkPrices"
    /\ IF PricesInvalid(args.startPrice, args.endPrice)
       THEN Error("Price must be larger than zero!")
       ELSE Continue("checkSpread")
    /\ UNCHANGED <<args, startDate, endDate, rows, rng, stdout, outFile>>

SpreadInvalid(spread) == spread < 0

CheckSpread ==
    /\ pc = "checkSpread"
    /\ IF SpreadInvalid(args.spread)
       THEN Error("Spread must be larger or equal to zero!")
       ELSE Continue("checkDensity")
    /\ UNCHANGED <<args, startDate, endDate, rows, rng, stdout, outFile>>

DensityInvalid(density) == density <= 0

CheckDensity ==
    /\ pc = "checkDensity"
    /\ IF DensityInvalid(args.density)
       THEN Error("Density must be larger than zero!")
       ELSE Continue("checkVolatility")
    /\ UNCHANGED <<args, startDate, endDate, rows, rng, stdout, outFile>>

VolatilityInvalid(volatility) == QLeZero(volatility)

CheckVolatility ==
    /\ pc = "checkVolatility"
    /\ IF VolatilityInvalid(args.volatility)
       THEN Error("Volatility must be larger than zero!")
       ELSE Continue("dispatch")
    /\ UNCHANGED <<args, startDate, endDate, rows, rng, stdout, outFile>>

\* spread = args.spread / 1e5
SpreadPrice(spread) == Q(spread, 100000)

\* datetime.timedelta(seconds=60 / args.density), a whole number of seconds
\* for the densities of the model (divisors of 60).
DeltaTime(density) == 60 \div density

\* rows = <generator>(...): the ticks returned, or the exception raised.
Returned(result) ==
    IF result.fault # None
    THEN /\ rows' = None
         /\ Crash(result.fault)
    ELSE /\ rows' = result.ticks
         /\ Continue("output")

RunLinear ==
    /\ pc = "dispatch"
    /\ args.pattern = "none"
    /\ \E result \in {linearModel(startDate, endDate, args.startPrice, args.endPrice,
                            DeltaTime(args.density), SpreadPrice(args.spread))} :
         Returned(result)
    /\ UNCHANGED <<args, startDate, endDate, rng, stdout, outFile>>

RunZigzag ==
    /\ pc = "dispatch"
    /\ args.pattern = "zigzag"
    /\ \E result \in {zigzagModel(startDate, endDate, args.startPrice, args.endPrice,
                            DeltaTime(args.density), SpreadPrice(args.spread),
                            args.volatility)} :
         Returned(result)
    /\ UNCHANGED <<args, startDate, endDate, rng, stdout, outFile>>

RunWave ==
    /\ pc = "dispatch"
    /\ args.pattern = "wave"
    /\ \E result \in {waveModel(startDate, endDate, args.startPrice, args.endPrice,
                          DeltaTime(args.density), SpreadPrice(args.spread),
                          args.volatility)} :
         Returned(result)
    /\ UNCHANGED <<args, startDate, endDate, rng, stdout, outFile>>

RunCurve ==
    /\ pc = "dispatch"
    /\ args.pattern = "curve"
    /\ \E result \in {curveModel(startDate, endDate, args.startPrice, args.endPrice,
                           DeltaTime(args.density), SpreadPrice(args.spread),
                           args.volatility)} :
         Returned(result)
    /\ UNCHANGED <<args, startDate, endDate, rng, stdout, outFile>>

\* The generator's state when randomModel first draws is whatever the
\* interpreter seeded it with: any seed.
RunRandom ==
    /\ pc = "dispatch"
    /\ args.pattern = "random"
    /\ \E seed \in Seeds :
         \E result \in {randomModel(startDate, endDate, args.startPrice, args.endPrice,
                                    DeltaTime(args.density), SpreadPrice(args.spread),
                                    args.volatility, seed)} :
             /\ rng' = result.rng
             /\ Returned(result)
    /\ UNCHANGED <<args, startDate, endDate, stdout, outFile>>

\* toCsv(rows, args.digits, output) writes one row per tick.
toCsv(ticks) == Len(ticks)

\* args.outputFile is read here for the first time, so it is drawn here:
\* absent (or empty), or a path.
Output ==
    /\ pc = "output"
    /\ \E outputFile \in OutputFiles :
         IF outputFile # None
         THEN /\ outFile' = [opened |-> TRUE, rows |-> toCsv(rows)]
              /\ UNCHANGED stdout
         ELSE /\ stdout' = stdout + toCsv(rows)
              /\ UNCHANGED outFile
    /\ pc' = "done"
    /\ exitStatus' = 0
    /\ UNCHANGED <<args, startDate, endDate, rows, rng, stderr>>

Next ==
    \/ ParseDates
    \/ CheckOrder
    \/ CheckDigits
    \/ CheckPrices
    \/ CheckSpread
    \/ CheckDensity
    \/ CheckVolatility
    \/ RunLinear
    \/ RunZigzag
    \/ RunWave
    \/ RunCurve
    \/ RunRandom
    \/ Output

Spec == Init /\ [][Next]_vars

-----------------------------------------------------------------------------
(* What the properties read off a run.                                     *)

Positive(q) == q.w > 0 \/ (q.w = 0 /\ q.n > 0)

\* The number of the first check of __main__ the command line fails, 8 when
\* it fails none.
FirstFailure ==
    IF ~(DateParses(args.startDate) /\ DateParses(args.endDate)) THEN 1
    ELSE IF Strptime(args.endDate) < Strptime(args.startDate) THEN 2
    ELSE IF args.digits <= 0 THEN 3
    ELSE IF ~(Positive(args.startPrice) /\ Positive(args.endPrice)) THEN 4
    ELSE IF args.spread < 0 THEN 5
    ELSE IF args.density <= 0 THEN 6
    ELSE IF ~Positive(args.volatility) THEN 7
    ELSE 8

Accepted == FirstFailure = 8

\* How far the run has come; a run that has exited through error() is
\* nowhere.
Stage ==
    CASE pc = "exited"          -> 0
      [] pc = "parseDates"      -> 1
      [] pc = "checkOrder"      -> 2
      [] pc = "checkDigits"     -> 3
      [] pc = "checkPrices"     -> 4
      [] pc = "checkSpread"     -> 5
      [] pc = "checkDensity"    -> 6
      [] pc = "checkVolatility" -> 7
      [] OTHER                  -> 8

ErrorLines ==
    {"[ERROR] " \o text : text \in
        {"Bad date format!", "Ending date precedes starting date!",
         "Digits must be larger than zero!", "Price must be larger than zero!",
         "Spread must be larger or equal to zero!",
         "Density must be larger than zero!",
         "Volatility must be larger than zero!"}}

Generated == rows # None

Last == rows[Len(rows)]

\* ceil((endDate + 1 day - startDate) / deltaTime) for the run's arguments.
ExpectedCount == CeilDiv(endDate + 86400 - startDate, 60 \div args.density)

\* The spread in price units, and the price spread above endPrice.
PriceSpread == Q(args.spread, 100000)

EvenlySpaced(step) ==
    /\ rows[1].timestamp = startDate
    /\ \A j \in 2..Len(rows) : rows[j].timestamp = rows[j - 1].timestamp + step

EndsOnEndPrice ==
    /\ Last.bidPrice = args.endPrice
    /\ Last.askPrice = QAdd(args.endPrice, PriceSpread)

\* zigzagModel's quantities, from the arguments.
Backward == QTrunc(QMulInt(args.volatility, 50))
Cycle    == 500 + Backward
BodyLen  == ExpectedCount - Backward
Lift     == QDivInt(QSub(args.endPrice, args.startPrice), ExpectedCount)
UpStep   == QDivInt(QMulInt(Lift, 500 + 2 * Backward), 500)

\* The steps of the k-th complete cycle (k >= 0) that move the bid by delta.
StepsOf(k, delta) ==
    {j \in (k * Cycle + 1)..((k + 1) * Cycle) :
        rows[j + 1].bidPrice = QAdd(rows[j].bidPrice, delta)}

IsExample ==
    /\ args.startDate = <<2014, 1, 1>>
    /\ args.endDate = <<2014, 1, 2>>
    /\ args.startPrice = QInt(2)
    /\ args.endPrice = QInt(2)
    /\ args.density = 1
    /\ args.pattern = "none"
    /\ args.spread = 10

ExampleSeries(n) ==
    /\ Len(rows) = n
    /\ EvenlySpaced(60)
    /\ \A j \in 1..Len(rows) :
          /\ rows[j].bidPrice = QInt(2)
          /\ rows[j].askPrice = Q(20001, 10000)

-----------------------------------------------------------------------------
(* The properties.                                                         *)

\* C1: a command line that fails a check never gets past the first check it
\* fails: no generator has run (rows is unset), nothing is on stdout, the
\* output file is not opened, and once the run has stopped it has printed
\* one [ERROR] line and exited with status 1.
C1_ValidationFailureIsFatal ==
    ~Accepted =>
        /\ Stage <= FirstFailure
        /\ rows = None
        /\ stdout = 0
        /\ ~outFile.opened
        /\ pc = "exited" => (exitStatus = 1 /\ Len(stderr) = 1 /\ stderr[1] \in ErrorLines)
        /\ pc # "exited" => (exitStatus = None /\ stderr = << >>)

C1_Witness ==
    /\ ~Accepted
    /\ pc = "exited"
    /\ exitStatus = 1
    /\ args.digits <= 0

\* C2: every non-random generator returns exactly
\* ceil((endDate + 1 day - startDate) / deltaTime) ticks, zigzag with
\* backward larger than the count included.
C2_TickCountIsCeil ==
    (Generated /\ args.pattern # "random") => Len(rows) = ExpectedCount

\* C3: the first tick of every returned series is stamped startDate and
\* each later tick is stamped 60/density seconds after the one before it.
C3_TimestampsEvenlySpaced ==
    Generated => EvenlySpaced(60 \div args.density)

C3_Witness ==
    /\ Generated
    /\ args.pattern = "zigzag"
    /\ Backward = 50
    /\ Len(rows) > BodyLen
    /\ BodyLen > 1
    /\ rows[BodyLen + 1].timestamp = rows[BodyLen].timestamp + 60 \div args.density

\* C4: randomModel's last tick has bidPrice endPrice and askPrice
\* endPrice + spread whatever was drawn, and its first tick still has
\* bidPrice startPrice.
C4_RandomEndsOnEndPrice ==
    (Generated /\ args.pattern = "random") =>
        /\ EndsOnEndPrice
        /\ rows[1].bidPrice = args.startPrice

C4_Witness ==
    /\ Generated
    /\ args.pattern = "random"
    /\ args.startPrice # args.endPrice
    /\ args.volatility = QInt(100)
    /\ rows[Len(rows) - 1].bidPrice # args.endPrice
    /\ Last.bidPrice = args.endPrice

\* C5: every tick of a returned series, the first included, has volumes
\* that are not negative and an askVolume that is its bidVolume plus the
\* spread in points.
C5_VolumesSpreadInPoints ==
    Generated =>
        \A j \in 1..Len(rows) :
            /\ rows[j].bidVolume.w >= 0
            /\ rows[j].askVolume.w >= 0
            /\ rows[j].askVolume = QAdd(rows[j].bidVolume, QInt(args.spread))

\* C6 as the specification words it: the example run (2014.01.01 to
\* 2014.01.02, both prices 2.0, density 1, pattern none, spread 10) returns
\* 1440 ticks, 60 seconds apart, each with bid 2.0 and ask 2.0001.
C6_ExampleHas1440Ticks ==
    (Generated /\ IsExample) => ExampleSeries(1440)

\* C6, amended: the example run returns 2880 ticks (the end date is
\* included, so the range is two days), 60 seconds apart, each with bid 2.0
\* and ask 2.0001.
C6_ExampleHas2880Ticks ==
    (Generated /\ IsExample) => ExampleSeries(2880)

C6_Witness ==
    /\ Generated
    /\ IsExample
    /\ pc = "done"
    /\ Len(rows) = 2880

\* C7: a command line that passes every check never ends in an uncaught
\* exception.
C7_AcceptedNeverCrashes ==
    Accepted => pc # "crashed"

\* C8: zigzagModel's series ends with backward ticks that advance by one
\* constant step, and its last tick has bidPrice endPrice and askPrice
\* endPrice + spread.
C8_ZigzagEndsOnEndPrice ==
    (Generated /\ args.pattern = "zigzag") =>
        /\ Len(rows) >= Backward
        /\ \A j \in (Len(rows) - Backward + 2)..(Len(rows) - 1) :
              QSub(rows[j + 1].bidPrice, rows[j].bidPrice)
                  = QSub(rows[j].bidPrice, rows[j - 1].bidPrice)
        /\ EndsOnEndPrice

\* C9 as the specification words it: with startPrice different from
\* endPrice, linearModel's last tick does not have bidPrice endPrice.
C9_LinearStopsShort ==
    (Generated /\ args.pattern = "none" /\ args.startPrice # args.endPrice) =>
        Last.bidPrice # args.endPrice

\* C9, amended: linearModel's per-tick delta is (endPrice - startPrice)
\* over the number of intervals between the emitted ticks, so in exact
\* arithmetic the last emitted tick has bidPrice endPrice (and askPrice
\* endPrice + spread).
C9_LinearReachesEndPrice ==
    (Generated /\ args.pattern = "none" /\ args.startPrice # args.endPrice) =>
        /\ \A j \in 2..Len(rows) :
              rows[j].bidPrice
                  = QAdd(rows[j - 1].bidPrice,
                         QDivInt(QSub(args.endPrice, args.startPrice), Len(rows) - 1))
        /\ EndsOnEndPrice

C9_Witness ==
    /\ Generated
    /\ args.pattern = "none"
    /\ args.startPrice # args.endPrice
    /\ Len(rows) = ExpectedCount
    /\ rows[2].bidPrice # args.startPrice

\* C10: in zigzagModel's body every complete cycle of 500 + backward steps
\* nets (500 + backward) * lift: the tick at index k * (500 + backward), when
\* in the body, has bidPrice startPrice + k * (500 + backward) * lift; and
\* when lift is not zero the cycle has 500 up-steps of
\* (500 + 2 * backward) / 500 * lift and backward down-steps of lift.
C10_ZigzagCycleNetsLift ==
    (Generated /\ args.pattern = "zigzag") =>
        \A k \in 0..(BodyLen \div Cycle) :
            /\ k * Cycle < BodyLen =>
                  rows[k * Cycle + 1].bidPrice
                      = QAdd(args.startPrice, QMulInt(Lift, k * Cycle))
            /\ ((k + 1) * Cycle < BodyLen /\ ~QIsZero(Lift)) =>
                  /\ Cardinality(StepsOf(k, UpStep)) = 500
                  /\ Cardinality(StepsOf(k, QNeg(Lift))) = Backward

C10_Witness ==
    /\ Generated
    /\ args.pattern = "zigzag"
    /\ Backward = 50
    /\ ~QIsZero(Lift)
    /\ 2 * Cycle < BodyLen
    /\ rows[Cycle + 1].bidPrice = QAdd(args.startPrice, QMulInt(Lift, Cycle))

=============================================================================
